---- MODULE Spec2Model ----
(***************************************************************************)
(* Model of photos.py: the library processor (process_library), its copy   *)
(* and compression tasks, and the quality-search loop of _process_photo.   *)
(*                                                                         *)
(* A source path is <<directory, basename>>; a destination path is         *)
(* <<bucket, basename>> with bucket one of OUTPUT_DIR, MISSING_DIR,        *)
(* PROBLEM_DIR.  A file's content is a record; NoFile marks a path that    *)
(* holds no file.  Whether an I/O or codec call raises, how large an       *)
(* encoded file is, and whether the wall clock has passed the timeout are  *)
(* chosen by the environment at each call.                                 *)
(***************************************************************************)
EXTENDS Integers, Sequences, FiniteSets, TLC

\* ------------------------------------------------------------------ bounds
\* The largest number of image files in the input tree.
MaxImages == 2

\* ------------------------------------------------------ program constants
TARGET_SIZE_MB == 3
START_QUALITY == 95
FALLBACK_QUALITY == 85

OUTPUT_DIR == "processed-photos"
MISSING_DIR == "processed-photos/missing-locations"
PROBLEM_DIR == "processed-photos/problem-photos"

\* int(target_size_mb * 1024 * 1024)
TargetSizeBytes == TARGET_SIZE_MB * 1024 * 1024

\* ------------------------------------------------------------ input space
\* The files os.walk can find, in the order it yields them.
WalkOrder ==
  << <<"d1", "a.jpg">>, <<"d1", "b.jpg">>, <<"d2", "a.jpg">> >>

SrcPaths == {WalkOrder[i] : i \in 1..Len(WalkOrder)}

\* File sizes on both sides of the target (the test is size <= target).
FileSizes == {TargetSizeBytes, TargetSizeBytes + 1}

\* What the table holds in column GPS_GPSLatitude for an image:
\*   "NA"    the key was absent and pd.NA was stored,
\*   "None"  a null value,
\*   "tuple" a latitude as piexif gives it (a tuple of rationals),
\*   "list"  an array-like value, for which pd.isna returns an array.
GpsValues == {"NA", "None", "tuple", "list"}

\* Parameters of a process_library run.
MinQualities == {90}
QualitySteps == {0, 5, 10}

\* Parameters of a direct _process_photo call: floors below the starting
\* quality with steps that lower the quality, and for the termination of
\* the loop also a floor above the starting quality and a step of zero.
EngineMinQualities == {50, 90}
EngineQualitySteps == {5, 10}
LoopMinQualities == {50, 90, 100}
LoopQualitySteps == {0, 5, 10}

\* ---------------------------------------------------------------- content
NoFile == [kind |-> "none", src |-> <<>>, quality |-> 0, size |-> 0]
Corrupt == [kind |-> "corrupt", src |-> <<>>, quality |-> 0, size |-> 0]
Orig(p, sz) == [kind |-> "orig", src |-> p, quality |-> 0, size |-> sz]

Buckets == {OUTPUT_DIR, MISSING_DIR, PROBLEM_DIR}
Basename(p) == p[2]
DestPaths == {<<b, Basename(p)>> : b \in Buckets, p \in SrcPaths}

\* ---------------------------------------------------------- pure helpers
\* A variant that treats the ValueError of an array-like value as missing.
IsMissingGpsValueErrorTrue(value) ==
  IF value = "None" THEN TRUE
  ELSE IF value = "list" THEN TRUE
  ELSE value = "NA"

\* _is_missing_gps: None is missing; otherwise bool(pd.isna(value)), and a
\* ValueError (the truth value of an array) means not missing.
IsMissingGps(value) ==
  IF value = "None" THEN TRUE
  ELSE IF value = "list" THEN FALSE
  ELSE value = "NA"

\* The destination both tasks compute from the inspected GPS value.
Destination(image_path, gps_lat) ==
  IF IsMissingGps(gps_lat)
    THEN <<MISSING_DIR, Basename(image_path)>>
    ELSE <<OUTPUT_DIR, Basename(image_path)>>

ProblemPhotoDestination(image_path) == <<PROBLEM_DIR, Basename(image_path)>>

\* A variant that tests the timeout before the size and the quality floor.
LoopOutcomeTimeoutFirst(size, q, minq, late_now) ==
  IF late_now THEN "timeout"
  ELSE IF size <= TargetSizeBytes \/ q <= minq THEN "break"
  ELSE "continue"

\* The order of the tests after an encode: size or quality floor first,
\* the timeout second, otherwise another iteration.
LoopOutcome(size, q, minq, late_now) ==
  IF size <= TargetSizeBytes \/ q <= minq THEN "break"
  ELSE IF late_now THEN "timeout"
  ELSE "continue"

\* A variant that never lowers the quality.
NextQualityStuck(q, step) == q

\* quality -= quality_step
NextQuality(q, step) == q - step

VARIABLES
  library,                \* the input tree: source path -> [size, gps]
  min_quality,            \* parameter min_quality
  quality_step,           \* parameter quality_step
  pc,                     \* position in process_library / _process_photo
  table,                  \* inspect_library's rows, in order
  copy_tasks,             \* compliant rows not yet copied
  compress_tasks,         \* oversized rows not yet processed
  fs,                     \* the output tree: destination path -> content
  compression_times,      \* dict destination -> "zero" | "measured"
  exceeded_timeout_flags, \* dict destination -> BOOLEAN
  image_path,             \* the image the running task works on
  destination,            \* its destination path
  quality,                \* _process_photo's quality
  exceeded_timeout,       \* _process_photo's exceeded_timeout
  encodes,                \* qualities of the loop's last two encodes
  last_step,              \* the last thing _process_photo did
  late,                   \* the clock has passed start_time + timeout_seconds
  done                    \* what each finished task did, in order

vars ==
  << library, min_quality, quality_step, pc, table, copy_tasks,
     compress_tasks, fs, compression_times, exceeded_timeout_flags,
     image_path, destination, quality, exceeded_timeout, encodes,
     last_step, late, done >>

params == << library, min_quality, quality_step >>
engine == << image_path, destination, quality, exceeded_timeout, encodes,
             last_step, late >>
maps == << compression_times, exceeded_timeout_flags >>

NoPath == <<>>
EmptyDict == [d \in {} |-> FALSE]
EmptyFs == [d \in DestPaths |-> NoFile]

\* The input trees: at most MaxImages of the files, each with a size and a
\* GPS value.
Libraries ==
  UNION {[S -> [size : FileSizes, gps : GpsValues]] :
           S \in {T \in SUBSET SrcPaths : Cardinality(T) <= MaxImages}}

Row(p) == [path |-> p, size |-> library[p].size, gps |-> library[p].gps]

RECURSIVE RowsFrom(_)
RowsFrom(i) ==
  IF i > Len(WalkOrder) THEN <<>>
  ELSE IF WalkOrder[i] \in DOMAIN library
    THEN <<Row(WalkOrder[i])>> \o RowsFrom(i + 1)
    ELSE RowsFrom(i + 1)

IsCompliant(row) == row.size <= TargetSizeBytes
NeedsCompression(row) == row.size > TargetSizeBytes

Init ==
  /\ library \in Libraries
  /\ min_quality \in MinQualities
  /\ quality_step \in QualitySteps
  /\ pc = "start"
  /\ table = <<>>
  /\ copy_tasks = <<>>
  /\ compress_tasks = <<>>
  /\ fs = EmptyFs
  /\ compression_times = EmptyDict
  /\ exceeded_timeout_flags = EmptyDict
  /\ image_path = NoPath
  /\ destination = NoPath
  /\ quality = 0
  /\ exceeded_timeout = FALSE
  /\ encodes = <<>>
  /\ last_step = "none"
  /\ late = FALSE
  /\ done = <<>>

\* ------------------------------------------------------- process_library
\* makedirs and inspect_library: a row per image found.  os.path.getsize
\* raises for a file that cannot be read, and nothing catches it.
Inspect ==
  /\ pc = "start"
  /\ \E readable \in BOOLEAN :
       IF readable \/ DOMAIN library = {}
         THEN /\ table' = RowsFrom(1)
              /\ pc' = "partition"
         ELSE /\ table' = table
              /\ pc' = "raised"
  /\ UNCHANGED << params, copy_tasks, compress_tasks, fs, maps, engine, done >>

\* The two filters on column image_size_mb.  An empty table has no columns:
\* the column lookup raises KeyError.
Partition ==
  /\ pc = "partition"
  /\ IF table = <<>>
       THEN /\ pc' = "raised"
            /\ UNCHANGED << copy_tasks, compress_tasks >>
       ELSE /\ copy_tasks' = SelectSeq(table, IsCompliant)
            /\ compress_tasks' = SelectSeq(table, NeedsCompression)
            /\ pc' = "tasks"
  /\ UNCHANGED << params, table, fs, maps, engine, done >>

\* shutil.copy2(image_path, destination): the copy, or an exception that
\* leaves the destination as it was or partly written.
\* A variant that re-encodes the image instead of copying it.
CopiedContentReencoded(p) ==
  [kind |-> "encoded", src |-> p, quality |-> START_QUALITY,
   size |-> library[p].size]

\* What shutil.copy2 writes: the source file's bytes.
CopiedContent(p) == Orig(p, library[p].size)

CopyOutcomes(p, dst) ==
  { [ok |-> TRUE, content |-> CopiedContent(p)],
    [ok |-> FALSE, content |-> fs[dst]],
    [ok |-> FALSE, content |-> Corrupt] }

Record(times, flags, dst, t, flag) ==
  /\ compression_times' = (dst :> t) @@ times
  /\ exceeded_timeout_flags' = (dst :> flag) @@ flags

\* _copy_photo_task on the next compliant row, and the caller's two
\* dictionary assignments.
CopyPhotoTask ==
  /\ pc = "tasks"
  /\ copy_tasks # <<>>
  /\ LET row == Head(copy_tasks)
         dst == Destination(row.path, row.gps)
     IN \E out \in CopyOutcomes(row.path, dst) :
          /\ fs' = [fs EXCEPT ![dst] = out.content]
          /\ Record(compression_times, exceeded_timeout_flags, dst, "zero", FALSE)
          /\ done' = Append(done, [path |-> row.path, dst |-> dst,
                                   key |-> dst, task |-> "copy",
                                   ok |-> out.ok, timed_out |-> FALSE,
                                   swapped |-> FALSE])
  /\ copy_tasks' = Tail(copy_tasks)
  /\ UNCHANGED << params, pc, table, compress_tasks, engine >>

\* ---------------------------------------------------- _process_photo_task
\* _process_photo_task up to its call of _process_photo, and that
\* function's first two statements.  Compression starts when every
\* compliant row has been copied.
BeginProcessPhotoTask ==
  /\ pc = "tasks"
  /\ copy_tasks = <<>>
  /\ compress_tasks # <<>>
  /\ LET row == Head(compress_tasks)
     IN /\ image_path' = row.path
        /\ destination' = Destination(row.path, row.gps)
  /\ quality' = 0
  /\ exceeded_timeout' = FALSE
  /\ encodes' = <<>>
  /\ last_step' = "none"
  /\ late' = FALSE
  /\ pc' = "open"
  /\ UNCHANGED << params, table, copy_tasks, compress_tasks, fs, maps, done >>

\* --------------------------------------------------------- _process_photo
\* Image.open, the colour-mode conversion and the EXIF round trip; then
\* quality = 95.  Any exception leads to the except branch.
OpenImage ==
  /\ pc = "open"
  /\ \E ok \in BOOLEAN :
       IF ok
         THEN /\ quality' = START_QUALITY
              /\ pc' = "save"
         ELSE /\ quality' = quality
              /\ pc' = "fallback"
  /\ UNCHANGED << params, table, copy_tasks, compress_tasks, fs, maps,
                  image_path, destination, exceeded_timeout, encodes,
                  last_step, late, done >>

\* img.save(output_path, quality=...): the encoded file, of a size the
\* codec decides, or an exception.  Pillow's save raises either before it
\* opens the path (the path is left as it was) or while writing; it removes
\* a file it created itself, and leaves one that was there before
\* truncated or partly written.
SaveOutcomes(p, dst, q, kind) ==
  { [ok |-> TRUE, content |-> [kind |-> kind, src |-> p, quality |-> q,
                                size |-> sz]] : sz \in FileSizes }
  \cup { [ok |-> FALSE, content |-> fs[dst]] }
  \cup { [ok |-> FALSE, content |-> Corrupt] : x \in {fs[dst]} \ {NoFile} }

\* The window kept of the encode history: the last two qualities (one
\* after the first encode).
LastTwo(s) == IF Len(s) <= 2 THEN s ELSE Tail(s)

\* The save at the head of the loop body.
EncodeSave ==
  /\ pc = "save"
  /\ \E out \in SaveOutcomes(image_path, destination, quality, "encoded") :
       /\ fs' = [fs EXCEPT ![destination] = out.content]
       /\ IF out.ok
            THEN /\ encodes' = LastTwo(Append(encodes, quality))
                 /\ last_step' = "encode"
                 /\ pc' = "check"
            ELSE /\ encodes' = encodes
                 /\ last_step' = "encode_failed"
                 /\ pc' = "fallback"
  /\ UNCHANGED << params, table, copy_tasks, compress_tasks, maps,
                  image_path, destination, quality, exceeded_timeout, late,
                  done >>

\* The rest of the loop body: the exit test, the timeout test, the
\* decrement.  The encode took some time: the clock may have passed the
\* timeout since the last test, and never runs backwards.
LoopCheck ==
  /\ pc = "check"
  /\ \E now_late \in (IF late THEN {TRUE} ELSE BOOLEAN) :
       LET outcome == LoopOutcome(fs[destination].size, quality, min_quality,
                                  now_late)
       IN /\ late' = now_late
          /\ exceeded_timeout' = (outcome = "timeout")
          /\ quality' = IF outcome = "continue"
                          THEN NextQuality(quality, quality_step)
                          ELSE quality
          /\ pc' = IF outcome = "continue" THEN "save" ELSE "task_return"
  /\ UNCHANGED << params, table, copy_tasks, compress_tasks, fs, maps,
                  image_path, destination, encodes, last_step, done >>

\* The except branch: reopen, convert, one save at quality 85; a second
\* exception is swallowed.
FallbackEncode ==
  /\ pc = "fallback"
  /\ \/ /\ last_step' = "fallback_failed"            \* Image.open raised
        /\ fs' = fs
     \/ \E out \in SaveOutcomes(image_path, destination, FALLBACK_QUALITY,
                                "fallback") :
          /\ fs' = [fs EXCEPT ![destination] = out.content]
          /\ last_step' = IF out.ok THEN "fallback" ELSE "fallback_failed"
  /\ pc' = "task_return"
  /\ UNCHANGED << params, table, copy_tasks, compress_tasks, maps,
                  image_path, destination, quality, exceeded_timeout,
                  encodes, late, done >>

\* ------------------------------------------- _process_photo_task, the end
\* A variant that copies the original first and moves the destination
\* afterwards.
SwapOutcomesCopyFirst(p, dst) ==
  LET problem == <<PROBLEM_DIR, Basename(p)>>
      copied == [fs EXCEPT ![dst] = Orig(p, library[p].size)]
  IN { [ok |-> FALSE, tree |-> fs],
       [ok |-> FALSE, tree |-> copied],
       [ok |-> TRUE,
        tree |-> [copied EXCEPT ![problem] = copied[dst], ![dst] = NoFile]] }

\* shutil.move(destination, problem_photo_destination) and then
\* shutil.copy2(image_path, destination) in one try block: the states the
\* output tree can be left in, with whether both calls returned.
SwapOutcomes(p, dst) ==
  LET problem == ProblemPhotoDestination(p)
      moved == [fs EXCEPT ![problem] = fs[dst], ![dst] = NoFile]
  IN { [ok |-> FALSE, tree |-> fs],                      \* move raised
       [ok |-> FALSE, tree |-> moved],                   \* copy2 raised
       [ok |-> FALSE, tree |-> [moved EXCEPT ![dst] = Corrupt]],
       [ok |-> TRUE,
        tree |-> [moved EXCEPT ![dst] = Orig(p, library[p].size)]] }

\* A variant that hands back the problem-photos path after a timeout.
ReturnedProblemDestination(dst, p, timed_out) ==
  IF timed_out THEN <<PROBLEM_DIR, Basename(p)>> ELSE dst

\* return (destination, compression_time, exceeded_timeout): the path the
\* task hands back, which the caller uses as the key of both dictionaries.
ReturnedDestination(dst, p, timed_out) == dst

\* After _process_photo returned: the swap when it timed out, the return,
\* and the caller's two dictionary assignments.
FinishProcessPhotoTask ==
  /\ pc = "task_return"
  /\ compress_tasks # <<>>
  /\ \E out \in IF exceeded_timeout
                  THEN SwapOutcomes(image_path, destination)
                  ELSE {[ok |-> FALSE, tree |-> fs]} :
       LET key == ReturnedDestination(destination, image_path,
                                      exceeded_timeout)
       IN /\ fs' = out.tree
          /\ done' = Append(done, [path |-> image_path, dst |-> destination,
                                   key |-> key, task |-> last_step,
                                   ok |-> last_step \in {"encode", "fallback"},
                                   timed_out |-> exceeded_timeout,
                                   swapped |-> out.ok])
          /\ Record(compression_times, exceeded_timeout_flags, key,
                    "measured", exceeded_timeout)
  /\ compress_tasks' = Tail(compress_tasks)
  /\ pc' = "tasks"
  /\ UNCHANGED << params, table, copy_tasks, engine >>

\* return (compression_times, exceeded_timeout_flags)
Return ==
  /\ pc = "tasks"
  /\ copy_tasks = <<>>
  /\ compress_tasks = <<>>
  /\ pc' = "returned"
  /\ UNCHANGED << params, table, copy_tasks, compress_tasks, fs, maps,
                  engine, done >>

Next ==
  \/ Inspect
  \/ Partition
  \/ CopyPhotoTask
  \/ BeginProcessPhotoTask
  \/ OpenImage
  \/ EncodeSave
  \/ LoopCheck
  \/ FallbackEncode
  \/ FinishProcessPhotoTask
  \/ Return

Spec == Init /\ [][Next]_vars

\* ------------------------------------------- a direct _process_photo call
\* _process_photo called on one oversized image of the tree, with
\* parameters from the wider sets: the state process_library is in when
\* its first compression task has just started.
OversizedLibraries ==
  UNION {[{p} -> [size : {TargetSizeBytes + 1}, gps : GpsValues]] :
           p \in SrcPaths}

EngineStart ==
  /\ library \in OversizedLibraries
  /\ pc = "open"
  /\ table = RowsFrom(1)
  /\ copy_tasks = <<>>
  /\ compress_tasks = table
  /\ fs = EmptyFs
  /\ compression_times = EmptyDict
  /\ exceeded_timeout_flags = EmptyDict
  /\ image_path = table[1].path
  /\ destination = Destination(table[1].path, table[1].gps)
  /\ quality = 0
  /\ exceeded_timeout = FALSE
  /\ encodes = <<>>
  /\ last_step = "none"
  /\ late = FALSE
  /\ done = <<>>

EngineInit ==
  /\ min_quality \in EngineMinQualities
  /\ quality_step \in EngineQualitySteps
  /\ EngineStart

LoopInit ==
  /\ min_quality \in LoopMinQualities
  /\ quality_step \in LoopQualitySteps
  /\ EngineStart

EngineNext ==
  \/ OpenImage
  \/ EncodeSave
  \/ LoopCheck
  \/ FallbackEncode

\* The interpreter runs the function's next statement: a call in progress
\* is never suspended for ever.
EngineSpec == EngineInit /\ [][EngineNext]_vars /\ WF_vars(EngineNext)
LoopSpec == LoopInit /\ [][EngineNext]_vars /\ WF_vars(EngineNext)

\* ================================================================ claims
Entries == {done[i] : i \in 1..Len(done)}
LastDone == done[Len(done)]
SourceContent(p) == Orig(p, library[p].size)
FileExists(d) == fs[d] # NoFile

\* A compression task has just returned and nothing has run since.
TaskJustFinished ==
  /\ pc \in {"tasks", "returned"}
  /\ done # <<>>
  /\ LastDone.task # "copy"

SwapPostcondition(e) ==
  /\ FileExists(<<PROBLEM_DIR, Basename(e.path)>>)
  /\ fs[e.dst] = SourceContent(e.path)

LaterWriter(i) == \E j \in (i + 1)..Len(done) : done[j].dst = done[i].dst

C3_QualitySequence ==
  /\ Len(encodes) = 1 => encodes[1] = START_QUALITY
  /\ Len(encodes) = 2 => /\ encodes[2] = encodes[1] - quality_step
                         /\ encodes[2] < encodes[1]
  /\ \A i \in 1..Len(encodes) : encodes[i] >= min_quality

\* C4 (as stated): for every min_quality and quality_step the call of
\* _process_photo comes to its return, whether or not the timeout fires.
C4_LoopTerminates == <>(pc = "task_return")

\* C4 (amended): for every min_quality and every quality_step >= 1 the call
\* of _process_photo comes to its return, whether or not the timeout fires.
C4_LoopTerminatesForPositiveStep ==
  (quality_step >= 1) => <>(pc = "task_return")

C4_Witness ==
  /\ pc = "task_return"
  /\ quality_step >= 1
  /\ last_step = "encode"
  /\ ~late
  /\ Len(encodes) = 2
  /\ fs[destination].size > TargetSizeBytes
  /\ quality <= min_quality

\* C5 (as stated): when the loop exits without a timeout and without the
\* exception fallback, the file written is within the target size or the
\* last encode was at exactly min_quality.
C5_ExitCondition ==
  (pc = "task_return" /\ last_step = "encode" /\ ~exceeded_timeout)
    => \/ fs[destination].size <= TargetSizeBytes
       \/ quality = min_quality

\* The claim's notion of an absent latitude: the key was missing or the
\* value is null.
GpsAbsent(value) == value \in {"NA", "None"}

BucketMatchesGps(p, dst) ==
  /\ dst[1] \in {OUTPUT_DIR, MISSING_DIR}
  /\ dst[2] = Basename(p)
  /\ dst[1] = MISSING_DIR <=> GpsAbsent(library[p].gps)

\* C6: the destination of every image, copied or compressed, timed out or
\* not, is under missing-locations exactly when its inspected GPS latitude
\* is absent, while its task runs and after it finished.
C6_BucketByGps ==
  /\ image_path # NoPath => BucketMatchesGps(image_path, destination)
  /\ \A e \in Entries : BucketMatchesGps(e.path, e.dst)

C6_Witness ==
  /\ pc = "returned"
  /\ \E e \in Entries :
       e.timed_out /\ e.swapped /\ e.dst[1] = MISSING_DIR
  /\ \E e \in Entries :
       e.task = "copy" /\ library[e.path].gps = "list"
         /\ e.dst[1] = OUTPUT_DIR

\* C7 (as stated): no exception of process_library reaches the caller,
\* whatever the input directory holds.
C7_NoExceptionReachesCaller == pc # "raised"

\* C8: after process_library returns every inspected image has exactly one
\* finished task, whose destination is <output_dir>/<basename> or
\* <output_dir>/missing-locations/<basename>; both maps have the same keys,
\* which are exactly these destinations, none of them under problem-photos.
C8_MapsKeyedByDestination ==
  pc = "returned" =>
    /\ Len(done) = Len(table)
    /\ \A r \in 1..Len(table) :
         Cardinality({i \in 1..Len(done) : done[i].path = table[r].path}) = 1
    /\ \A e \in Entries :
         e.dst \in {<<OUTPUT_DIR, Basename(e.path)>>,
                    <<MISSING_DIR, Basename(e.path)>>}
    /\ DOMAIN compression_times = DOMAIN exceeded_timeout_flags
    /\ DOMAIN compression_times = {e.dst : e \in Entries}
    /\ \A k \in DOMAIN compression_times : k[1] # PROBLEM_DIR

C8_Witness ==
  /\ pc = "returned"
  /\ Len(done) = 2
  /\ \E e \in Entries : e.timed_out /\ e.swapped
  /\ \E e \in Entries : e.task = "copy"

\* C9 (as stated): when the main pipeline and the fallback encode both
\* failed, no file is at the destination when _process_photo returns.
C9_NoFileAfterDoubleFailure ==
  (pc = "task_return" /\ last_step = "fallback_failed")
    => ~FileExists(destination)

\* C10: _process_photo reports a timeout only after a loop encode that came
\* out larger than the target at a quality above min_quality; a file is
\* under problem-photos only for an image whose task reported a timeout.
C10_TimeoutOnlyAfterOversizedEncode ==
  /\ (pc = "task_return" /\ exceeded_timeout)
       => /\ last_step = "encode"
          /\ fs[destination].kind = "encoded"
          /\ fs[destination].quality = quality
          /\ fs[destination].size > TargetSizeBytes
          /\ quality > min_quality
  /\ \A e \in Entries : e.timed_out => e.task = "encode"
  /\ \A d \in DestPaths :
       (d[1] = PROBLEM_DIR /\ FileExists(d))
         => \E e \in Entries : e.timed_out /\ Basename(e.path) = d[2]

\* The clock had passed the timeout, and the encode met the exit test.
C10_Witness ==
  /\ pc = "task_return"
  /\ late
  /\ ~exceeded_timeout
  /\ last_step = "encode"
  /\ fs[destination].size <= TargetSizeBytes
====
